---- MODULE Spec2Model ----
(***************************************************************************)
(* Model of the PDF generation server (src/server.js): the /generate-pdf   *)
(* request handler, seen as one process per request whose steps are the    *)
(* synchronous segments between its awaits, and the document composer      *)
(* generateResumeHTML with its helpers getSpacing and parseMarkdown.       *)
(*                                                                         *)
(* JavaScript values are modelled as follows.  An optional value is a      *)
(* sequence of length 0 (undefined / absent property) or 1 (present).      *)
(* A string that the code only stores, compares or interpolates is a TLA+  *)
(* string.  The markdown content, which the code scans character by        *)
(* character, is a sequence of one-character strings.  Generated markup    *)
(* is a sequence of tokens: the literal pieces of the template literal and *)
(* the interpolated values, in the order the code emits them.              *)
(***************************************************************************)
EXTENDS Integers, Sequences, FiniteSets, TLC

VARIABLES
  body,       \* req.body of each request
  pc,         \* position of each request's handler
  html,       \* the handler's local `html`
  browser,    \* the handler's local `browser` (index into browsers)
  page,       \* the handler's local `page` (index into pages)
  pdfBuffer,  \* the handler's local `pdfBuffer`
  response,   \* what has been written to `res`, in order
  log,        \* the pipeline stages each request has started, in order
  failed,     \* the stage whose call threw or rejected, if any
  browsers,   \* the browser processes puppeteer has launched
  pages,      \* the pages opened in those browsers
  fnArg,      \* argument of the pure function under check
  fnResult    \* its result, once applied

vars == <<body, pc, html, browser, page, pdfBuffer, response, log, failed,
          browsers, pages, fnArg, fnResult>>

reqVars == <<body, pc, html, browser, page, pdfBuffer, response, log, failed,
             browsers, pages>>

fnVars == <<fnArg, fnResult>>

----
\* Bounds

NumRequests == 2
MaxLen == 6
MaxKeywords == 2

----
\* JavaScript values

None == <<>>

Some(x) == <<x>>

IsSome(o) == Len(o) = 1

Get(o) == o[1]

Option(S) == {None} \cup {Some(x) : x \in S}

\* all sequences over S of length at most n
SeqUpTo(S, n) == UNION {[1..k -> S] : k \in 0..n}

\* Array.prototype.join('') of a sequence of token sequences
RECURSIVE Flatten(_)
Flatten(ss) == IF ss = <<>> THEN <<>> ELSE Head(ss) \o Flatten(Tail(ss))

\* an interpolation that prints undefined as the empty string
StrOrEmpty(o) == IF IsSome(o) THEN Get(o) ELSE ""

\* `${x}` of an optional string: undefined prints as "undefined"
Str(o) == IF IsSome(o) THEN Get(o) ELSE "undefined"

----
\* getSpacing (src/server.js:93-109)

\* spacingDefaults, own properties
spacingDefaults ==
  [standard |-> [sectionMargin |-> Some(20), itemMargin |-> Some(10)],
   compact  |-> [sectionMargin |-> Some(15), itemMargin |-> Some(5)],
   spacious |-> [sectionMargin |-> Some(25), itemMargin |-> Some(15)]]

\* Property names every object literal inherits from Object.prototype; each
\* of them reads as a truthy value (a function or an object) that has no
\* sectionMargin and no itemMargin property.
ObjectPrototypeKeys ==
  {"constructor", "toString", "valueOf", "hasOwnProperty", "__proto__"}

\* spacingDefaults[layout] || spacingDefaults.standard
DefaultSpacing(layout) ==
  IF layout \in DOMAIN spacingDefaults THEN spacingDefaults[layout]
  ELSE IF layout \in ObjectPrototypeKeys
       THEN [sectionMargin |-> None, itemMargin |-> None]
       ELSE spacingDefaults.standard

\* truthiness of an optional number
TruthyNum(o) == IsSome(o) /\ Get(o) # 0

\* truthiness of an optional string
TruthyStr(o) == IsSome(o) /\ Get(o) # ""

\* a || b on optional numbers
OrNum(a, b) == IF TruthyNum(a) THEN a ELSE b

NoSpacing == [sectionMargin |-> None, itemMargin |-> None]

\* template is an optional Template record
getSpacing(template) ==
  LET layout == IF IsSome(template) /\ TruthyStr(Get(template).layout)
                THEN Get(Get(template).layout) ELSE "standard"
      customSpacing == IF IsSome(template) /\ IsSome(Get(template).spacing)
                       THEN Get(Get(template).spacing) ELSE NoSpacing
      defaultSpacing == DefaultSpacing(layout)
  IN [sectionMargin |-> OrNum(customSpacing.sectionMargin,
                              defaultSpacing.sectionMargin),
      itemMargin |-> OrNum(customSpacing.itemMargin,
                           defaultSpacing.itemMargin)]

----
\* parseMarkdown (src/server.js:114-124)

NL == "\n"

\* the characters content is drawn from
Chars == {"#", " ", "*", "-", "a", NL}

\* /^/m : position i of s is at the start of the text or just after a newline
IsLineStart(s, i) == i = 1 \/ s[i - 1] = NL

\* s has the literal p at position i
HasPrefix(s, i, p) ==
  /\ i + Len(p) - 1 <= Len(s)
  /\ SubSeq(s, i, i + Len(p) - 1) = p

\* (.*$) with the m flag: the first position from i on that is the end of
\* the text or a newline
RECURSIVE LineEnd(_, _)
LineEnd(s, i) ==
  IF i > Len(s) \/ s[i] = NL THEN i ELSE LineEnd(s, i + 1)

\* s.replace(/^<prefix>(.*$)/gm, '<open>$1<close>'), scanning from position i
RECURSIVE ReplaceLineRule(_, _, _, _, _)
ReplaceLineRule(s, i, prefix, open, close) ==
  IF i > Len(s) THEN <<>>
  ELSE IF IsLineStart(s, i) /\ HasPrefix(s, i, prefix)
       THEN LET e == LineEnd(s, i + Len(prefix))
            IN <<open>> \o SubSeq(s, i + Len(prefix), e - 1) \o <<close>>
                 \o ReplaceLineRule(s, e, prefix, open, close)
       ELSE <<s[i]>> \o ReplaceLineRule(s, i + 1, prefix, open, close)

\* s.replace(/\n\n/g, '<br/><br/>'), scanning from position i
RECURSIVE ReplaceBlank(_, _)
ReplaceBlank(s, i) ==
  IF i > Len(s) THEN <<>>
  ELSE IF HasPrefix(s, i, <<NL, NL>>)
       THEN <<"<br/><br/>">> \o ReplaceBlank(s, i + 2)
       ELSE <<s[i]>> \o ReplaceBlank(s, i + 1)

\* the transcoder with the third heading rule emitting level-2 tags
parseMarkdownWrongLevel(content) ==
  IF ~IsSome(content) \/ Get(content) = <<>> THEN <<>>
  ELSE LET r1 == ReplaceLineRule(Get(content), 1, <<"#", " ">>, "<h1>", "</h1>")
           r2 == ReplaceLineRule(r1, 1, <<"#", "#", " ">>, "<h2>", "</h2>")
           r3 == ReplaceLineRule(r2, 1, <<"#", "#", "#", " ">>, "<h2>", "</h2>")
           r4 == ReplaceLineRule(r3, 1, <<"*", " ">>, "<li>", "</li>")
           r5 == ReplaceLineRule(r4, 1, <<"-", " ">>, "<li>", "</li>")
       IN ReplaceBlank(r5, 1)

\* content is an optional sequence of characters
parseMarkdown(content) ==
  IF ~IsSome(content) \/ Get(content) = <<>> THEN <<>>
  ELSE LET r1 == ReplaceLineRule(Get(content), 1, <<"#", " ">>, "<h1>", "</h1>")
           r2 == ReplaceLineRule(r1, 1, <<"#", "#", " ">>, "<h2>", "</h2>")
           r3 == ReplaceLineRule(r2, 1, <<"#", "#", "#", " ">>, "<h3>", "</h3>")
           r4 == ReplaceLineRule(r3, 1, <<"*", " ">>, "<li>", "</li>")
           r5 == ReplaceLineRule(r4, 1, <<"-", " ">>, "<li>", "</li>")
       IN ReplaceBlank(r5, 1)

----
\* generateResumeHTML (src/server.js:89-234)

ColorNames == {"primary", "secondary", "accent", "background", "text"}

\* `${n}` of an optional number
NumStr(o) == IF IsSome(o) THEN ToString(Get(o)) ELSE "undefined"

\* `${spacing.itemMargin * 2}`
Times2Str(o) == IF IsSome(o) THEN ToString(Get(o) * 2) ELSE "NaN"

\* `${spacing.itemMargin / 2}`
HalfStr(o) ==
  IF ~IsSome(o) THEN "NaN"
  ELSE IF Get(o) % 2 = 0 THEN ToString(Get(o) \div 2)
       ELSE ToString(Get(o) \div 2) \o ".5"

\* template.layout === 'sidebar'
IsSidebar(t) == IsSome(t.layout) /\ Get(t.layout) = "sidebar"

FlexRules ==
  <<".resume-content{display:flex;}",
    ".main-content{flex:2;padding-right:20px;}",
    ".sidebar{flex:1;border-left:1px solid #eee;padding-left:20px;}">>

\* the flex ruleset for every layout other than standard
FlexBlockUnlessStandard(t) ==
  IF IsSome(t.layout) /\ Get(t.layout) # "standard" THEN FlexRules ELSE <<>>

\* ${template.layout === 'sidebar' ? `...` : ''}, lines 186-199
FlexBlock(t) ==
  IF IsSome(t.layout) /\ Get(t.layout) = "sidebar" THEN FlexRules ELSE <<>>

\* the <style> element, lines 133-200; t is a Template whose colors are
\* present, c its colors, sp the resolved spacing
StyleSheet(t, sp) ==
  LET c == Get(t.colors)
      font == IF TruthyStr(t.fontFamily) THEN Get(t.fontFamily)
              ELSE "Arial, sans-serif"
  IN <<"<style>",
       "body{font-family:", font,
       ";color:", Str(c.text),
       ";background-color:", Str(c.background),
       ";margin:0;padding:20px;}",
       ".container{max-width:800px;margin:0 auto;padding:30px;border-top:6px solid ",
       Str(c.primary), ";}",
       "h1{color:", Str(c.primary),
       ";font-size:24px;margin-bottom:", Times2Str(sp.itemMargin), "px;}",
       "h2{color:", Str(c.secondary),
       ";font-size:18px;margin-bottom:", NumStr(sp.itemMargin),
       "px;border-bottom:1px solid #eee;padding-bottom:5px;}",
       "h3{font-size:16px;margin-bottom:", HalfStr(sp.itemMargin), "px;}",
       "p{margin-bottom:", NumStr(sp.itemMargin), "px;}",
       "ul{margin-bottom:", NumStr(sp.itemMargin), "px;}",
       "li{margin-bottom:", HalfStr(sp.itemMargin), "px;}",
       ".keywords{margin-top:", NumStr(sp.sectionMargin), "px;}",
       ".keyword{display:inline-block;background-color:",
       Str(c.accent) \o "20",
       ";color:", Str(c.accent),
       ";border:1px solid ", Str(c.accent) \o "40",
       ";border-radius:4px;padding:4px 8px;margin-right:8px;margin-bottom:8px;font-size:12px;}">>
     \o FlexBlock(t)
     \o <<"</style>">>

\* chips with repeated keywords dropped
KeywordChipsUnique(keywords) ==
  Flatten([i \in 1..Len(keywords) |->
             IF \E j \in 1..(i - 1) : keywords[j] = keywords[i] THEN <<>>
             ELSE <<"<span class=\"keyword\">", keywords[i], "</span>">>])

\* resumeData.keywords.map(k => `<span class="keyword">${k}</span>`).join('')
KeywordChips(keywords) ==
  Flatten([i \in 1..Len(keywords) |->
             <<"<span class=\"keyword\">", keywords[i], "</span>">>])

\* the <body> element, lines 202-229
Body(t, content, keywords) ==
  <<"<body>", "<div class=\"container\">">>
  \o (IF IsSidebar(t)
      THEN <<"<div class=\"resume-content\">", "<div class=\"main-content\">">>
           \o parseMarkdown(content)
           \o <<"</div>", "<div class=\"sidebar\">", "<h2>Key Skills</h2>",
                "<div class=\"keywords\">">>
           \o KeywordChips(keywords)
           \o <<"</div>", "</div>", "</div>">>
      ELSE <<"<div>">>
           \o parseMarkdown(content)
           \o <<"<div class=\"keywords\">", "<h2>Key Skills</h2>">>
           \o KeywordChips(keywords)
           \o <<"</div>", "</div>">>)
  \o <<"</div>", "</body>">>

TypeErrorOf(prop) ==
  "Cannot read properties of undefined (reading '" \o prop \o "')"

Thrown(msg) == [ok |-> FALSE, html |-> <<>>, message |-> msg]

Returned(doc) == [ok |-> TRUE, html |-> doc, message |-> ""]

\* The template literal is evaluated left to right: template.fontFamily
\* first, then template.colors.text, and resumeData.keywords.map last; a
\* read of a property of undefined throws a TypeError there.
generateResumeHTML(resumeData) ==
  LET template == resumeData.template
      spacing == getSpacing(template)
  IN IF ~IsSome(template) THEN Thrown(TypeErrorOf("fontFamily"))
     ELSE IF ~IsSome(Get(template).colors) THEN Thrown(TypeErrorOf("text"))
     ELSE IF ~IsSome(resumeData.keywords) THEN Thrown(TypeErrorOf("map"))
     ELSE Returned(<<"<!DOCTYPE html>", "<html>", "<head>",
                     "<meta charset=\"utf-8\">", "<title>Resume</title>">>
                   \o StyleSheet(Get(template), spacing)
                   \o <<"</head>">>
                   \o Body(Get(template), resumeData.content,
                           Get(resumeData.keywords))
                   \o <<"</html>">>)

----
\* Request inputs

FullColors ==
  [primary |-> Some("#111"), secondary |-> Some("#222"), accent |-> Some("#333"),
   background |-> Some("#fff"), text |-> Some("#000")]

\* a colors object without an accent value
PartialColors == [FullColors EXCEPT !.accent = None]

TemplateOf(layout, colors) ==
  [layout |-> layout, spacing |-> None, colors |-> colors, fontFamily |-> None]

ResumeOf(content, keywords, template) ==
  [content |-> Some(content), keywords |-> Some(keywords), template |-> template]

StandardResume ==
  ResumeOf(<<"#", " ", "a">>, <<"js">>,
           Some(TemplateOf(Some("standard"), Some(FullColors))))

SidebarResume ==
  ResumeOf(<<"-", " ", "a">>, <<"go", "js">>,
           Some(TemplateOf(Some("sidebar"), Some(FullColors))))

NoColorsResume ==
  ResumeOf(<<"a">>, <<"js">>, Some(TemplateOf(Some("standard"), None)))

PartialColorsResume ==
  ResumeOf(<<"a">>, <<>>, Some(TemplateOf(Some("compact"), Some(PartialColors))))

NoTemplateResume == ResumeOf(<<"a">>, <<"js">>, None)

\* the request bodies a client sends
RequestBodies ==
  {[resumeData |-> None, templateId |-> Some("t1")],
   [resumeData |-> Some(StandardResume), templateId |-> None],
   [resumeData |-> Some(StandardResume), templateId |-> Some("")],
   [resumeData |-> Some(StandardResume), templateId |-> Some("t1")],
   [resumeData |-> Some(SidebarResume), templateId |-> Some("t2")],
   [resumeData |-> Some(NoColorsResume), templateId |-> Some("t1")],
   [resumeData |-> Some(PartialColorsResume), templateId |-> Some("t1")],
   [resumeData |-> Some(NoTemplateResume), templateId |-> Some("t1")]}

NoBody == [resumeData |-> None, templateId |-> None]

----
\* The /generate-pdf handler (src/server.js:33-86)

Requests == 1..NumRequests

\* the render stages in the order the handler calls them
StageOrder ==
  <<"compose", "launch", "newPage", "setContent", "pdf", "close", "send">>

\* a validation that forgets templateId
MissingResumeDataOnly(b) ==
  ~IsSome(b.resumeData)

\* !resumeData || !templateId  (an object is truthy, '' is falsy)
MissingRequiredFields(b) ==
  ~IsSome(b.resumeData) \/ ~TruthyStr(b.templateId)

\* res.status(400).json({ error: 'Missing required fields' })
BadRequest ==
  [status |-> 400, contentType |-> "application/json",
   error |-> "Missing required fields", message |-> "", pdf |-> <<>>]

\* res.status(500).json({ error: 'Failed to generate PDF', message })
Failure(message) ==
  [status |-> 500, contentType |-> "application/json",
   error |-> "Failed to generate PDF", message |-> message, pdf |-> <<>>]

\* res.contentType('application/pdf'); res.send(pdfBuffer)
PdfResponse(buf) ==
  [status |-> 200, contentType |-> "application/pdf",
   error |-> "", message |-> "", pdf |-> buf]

\* page.pdf(...): the bytes the browser prints for the content loaded in
\* the page
PdfOf(content) == <<"%PDF">> \o content \o <<"%%EOF">>

\* a launch that hands out an already running browser when there is one
LaunchBrowserPooled(bs) ==
  IF \E i \in 1..Len(bs) : bs[i].open
  THEN [browsers |-> bs, id |-> CHOOSE i \in 1..Len(bs) : bs[i].open]
  ELSE [browsers |-> Append(bs, [open |-> TRUE]), id |-> Len(bs) + 1]

\* puppeteer.launch(...): a new browser process
LaunchBrowser(bs) ==
  [browsers |-> Append(bs, [open |-> TRUE]), id |-> Len(bs) + 1]

\* browser.newPage(): a new blank page in browser b
NewPage(ps, b) ==
  [pages |-> Append(ps, [browser |-> b, content |-> None]), id |-> Len(ps) + 1]

\* a catch block that logs the error and sends nothing
CatchSilent(r, stage, message) ==
  /\ response' = response
  /\ failed' = [failed EXCEPT ![r] = Some(stage)]
  /\ pc' = [pc EXCEPT ![r] = "done"]

\* the catch block, lines 79-85: stage threw or rejected with message
Catch(r, stage, message) ==
  /\ response' = [response EXCEPT ![r] = Append(@, Failure(message))]
  /\ failed' = [failed EXCEPT ![r] = Some(stage)]
  /\ pc' = [pc EXCEPT ![r] = "done"]

InitRequests ==
  /\ body = [r \in Requests |-> NoBody]
  /\ pc = [r \in Requests |-> "idle"]
  /\ html = [r \in Requests |-> None]
  /\ browser = [r \in Requests |-> None]
  /\ page = [r \in Requests |-> None]
  /\ pdfBuffer = [r \in Requests |-> None]
  /\ response = [r \in Requests |-> <<>>]
  /\ log = [r \in Requests |-> <<>>]
  /\ failed = [r \in Requests |-> None]
  /\ browsers = <<>>
  /\ pages = <<>>

Init ==
  /\ InitRequests
  /\ fnArg = None
  /\ fnResult = None

\* A request arrives with body b; the handler runs up to its first await
\* (lines 34-49): validation, composition, the call of puppeteer.launch.
Receive(r, b) ==
  /\ pc[r] = "idle"
  /\ body' = [body EXCEPT ![r] = b]
  /\ IF MissingRequiredFields(b)
     THEN /\ response' = [response EXCEPT ![r] = Append(@, BadRequest)]
          /\ pc' = [pc EXCEPT ![r] = "done"]
          /\ UNCHANGED <<html, log, failed>>
     ELSE LET doc == generateResumeHTML(Get(b.resumeData))
          IN IF doc.ok
             THEN /\ html' = [html EXCEPT ![r] = Some(doc.html)]
                  /\ log' = [log EXCEPT ![r] = @ \o <<"compose", "launch">>]
                  /\ pc' = [pc EXCEPT ![r] = "awaitLaunch"]
                  /\ UNCHANGED <<response, failed>>
             ELSE /\ log' = [log EXCEPT ![r] = Append(@, "compose")]
                  /\ Catch(r, "compose", doc.message)
                  /\ UNCHANGED html
  /\ UNCHANGED <<browser, page, pdfBuffer, browsers, pages, fnVars>>

\* puppeteer.launch resolves; the handler calls browser.newPage (line 54)
LaunchResolve(r) ==
  /\ pc[r] = "awaitLaunch"
  /\ LET l == LaunchBrowser(browsers)
     IN /\ browsers' = l.browsers
        /\ browser' = [browser EXCEPT ![r] = Some(l.id)]
  /\ log' = [log EXCEPT ![r] = Append(@, "newPage")]
  /\ pc' = [pc EXCEPT ![r] = "awaitNewPage"]
  /\ UNCHANGED <<body, html, page, pdfBuffer, response, failed, pages, fnVars>>

\* page.setContent called without await: page.pdf is called right after it
NewPageResolveNoAwait(r) ==
  /\ pc[r] = "awaitNewPage"
  /\ browsers[Get(browser[r])].open
  /\ LET n == NewPage(pages, Get(browser[r]))
     IN /\ pages' = n.pages
        /\ page' = [page EXCEPT ![r] = Some(n.id)]
  /\ log' = [log EXCEPT ![r] = @ \o <<"setContent", "pdf">>]
  /\ pc' = [pc EXCEPT ![r] = "awaitPdf"]
  /\ UNCHANGED <<body, html, browser, pdfBuffer, response, failed, browsers,
                 fnVars>>

\* browser.newPage resolves; the handler calls page.setContent (line 57)
NewPageResolve(r) ==
  /\ pc[r] = "awaitNewPage"
  /\ browsers[Get(browser[r])].open
  /\ LET n == NewPage(pages, Get(browser[r]))
     IN /\ pages' = n.pages
        /\ page' = [page EXCEPT ![r] = Some(n.id)]
  /\ log' = [log EXCEPT ![r] = Append(@, "setContent")]
  /\ pc' = [pc EXCEPT ![r] = "awaitSetContent"]
  /\ UNCHANGED <<body, html, browser, pdfBuffer, response, failed, browsers,
                 fnVars>>

\* page.setContent resolves: the content is loaded and the network is idle;
\* the handler calls page.pdf (line 60)
SetContentResolve(r) ==
  /\ pc[r] = "awaitSetContent"
  /\ browsers[pages[Get(page[r])].browser].open
  /\ pages' = [pages EXCEPT ![Get(page[r])].content = html[r]]
  /\ log' = [log EXCEPT ![r] = Append(@, "pdf")]
  /\ pc' = [pc EXCEPT ![r] = "awaitPdf"]
  /\ UNCHANGED <<body, html, browser, page, pdfBuffer, response, failed,
                 browsers, fnVars>>

\* page.pdf resolves with the buffer; the handler calls browser.close
\* (line 71)
PdfResolve(r) ==
  /\ pc[r] = "awaitPdf"
  /\ browsers[pages[Get(page[r])].browser].open
  /\ IsSome(pages[Get(page[r])].content)
  /\ pdfBuffer' = [pdfBuffer EXCEPT
                     ![r] = Some(PdfOf(Get(pages[Get(page[r])].content)))]
  /\ log' = [log EXCEPT ![r] = Append(@, "close")]
  /\ pc' = [pc EXCEPT ![r] = "awaitClose"]
  /\ UNCHANGED <<body, html, browser, page, response, failed, browsers, pages,
                 fnVars>>

\* browser.close resolves; the handler sends the PDF (lines 74-77)
CloseResolve(r) ==
  /\ pc[r] = "awaitClose"
  /\ browsers' = [browsers EXCEPT ![Get(browser[r])].open = FALSE]
  /\ log' = [log EXCEPT ![r] = Append(@, "send")]
  /\ response' = [response EXCEPT
                    ![r] = Append(@, PdfResponse(Get(pdfBuffer[r])))]
  /\ pc' = [pc EXCEPT ![r] = "done"]
  /\ UNCHANGED <<body, html, browser, page, pdfBuffer, failed, pages, fnVars>>

\* the stage a pending await belongs to
AwaitedStage(p) ==
  CASE p = "awaitLaunch" -> "launch"
    [] p = "awaitNewPage" -> "newPage"
    [] p = "awaitSetContent" -> "setContent"
    [] p = "awaitPdf" -> "pdf"
    [] p = "awaitClose" -> "close"

Awaits ==
  {"awaitLaunch", "awaitNewPage", "awaitSetContent", "awaitPdf", "awaitClose"}

\* a rejection path with a render timeout: the pending stage is abandoned,
\* the browser is killed and the failure response is sent
RejectOrTimeout(r) ==
  /\ pc[r] \in Awaits
  /\ \/ /\ Catch(r, AwaitedStage(pc[r]), AwaitedStage(pc[r]) \o " failed")
        /\ UNCHANGED browsers
     \/ /\ Catch(r, "timeout", "render timed out")
        /\ browsers' = IF IsSome(browser[r])
                       THEN [browsers EXCEPT ![Get(browser[r])].open = FALSE]
                       ELSE browsers
  /\ UNCHANGED <<body, html, browser, page, pdfBuffer, log, pages, fnVars>>

\* a rejection path that ignores a failed browser.close and still sends the
\* captured PDF
RejectKeepsPdf(r) ==
  /\ pc[r] \in Awaits
  /\ IF pc[r] = "awaitClose"
     THEN /\ response' = [response EXCEPT
                            ![r] = Append(@, PdfResponse(Get(pdfBuffer[r])))]
          /\ failed' = [failed EXCEPT ![r] = Some("close")]
          /\ pc' = [pc EXCEPT ![r] = "done"]
     ELSE Catch(r, AwaitedStage(pc[r]), AwaitedStage(pc[r]) \o " failed")
  /\ UNCHANGED <<body, html, browser, page, pdfBuffer, log, browsers, pages,
                 fnVars>>

\* the awaited promise rejects; control passes to the catch block
Reject(r) ==
  /\ pc[r] \in Awaits
  /\ Catch(r, AwaitedStage(pc[r]), AwaitedStage(pc[r]) \o " failed")
  /\ UNCHANGED <<body, html, browser, page, pdfBuffer, log, browsers, pages,
                 fnVars>>

Next ==
  \E r \in Requests :
    \/ \E b \in RequestBodies : Receive(r, b)
    \/ LaunchResolve(r)
    \/ NewPageResolve(r)
    \/ SetContentResolve(r)
    \/ PdfResolve(r)
    \/ CloseResolve(r)
    \/ Reject(r)

Spec == Init /\ [][Next]_vars

----
\* Specifications that apply one pure function to every input of a bounded
\* set.  The request variables stay in their initial state.

Layouts ==
  {"", "standard", "compact", "spacious", "sidebar", "fancy", "constructor"}

OverrideValues == {0, 12, 30}

SpacingConfigs ==
  [sectionMargin : Option(OverrideValues), itemMargin : Option(OverrideValues)]

SpacingTemplates ==
  [layout : Option(Layouts), spacing : Option(SpacingConfigs),
   colors : {Some(FullColors)}, fontFamily : {None}]

InitSpacing ==
  /\ InitRequests
  /\ fnArg \in Option(SpacingTemplates)
  /\ fnResult = None

ApplyGetSpacing ==
  /\ fnResult = None
  /\ fnResult' = Some(getSpacing(fnArg))
  /\ UNCHANGED <<fnArg, reqVars>>

NextSpacing == ApplyGetSpacing

SpecSpacing == InitSpacing /\ [][NextSpacing]_vars

InitMarkdown ==
  /\ InitRequests
  /\ fnArg \in Option(SeqUpTo(Chars, MaxLen))
  /\ fnResult = None

ApplyParseMarkdown ==
  /\ fnResult = None
  /\ fnResult' = Some(parseMarkdown(fnArg))
  /\ UNCHANGED <<fnArg, reqVars>>

NextMarkdown == ApplyParseMarkdown

SpecMarkdown == InitMarkdown /\ [][NextMarkdown]_vars

Keywords == {"js", "go"}

ComposeContents ==
  {None, Some(<<>>), Some(<<"#", " ", "a">>),
   Some(<<"-", " ", "a", NL, NL, "a">>)}

ComposeTemplates ==
  [layout : Option({"standard", "compact", "sidebar", "fancy"}),
   spacing : {None, Some([sectionMargin |-> Some(12), itemMargin |-> None])},
   colors : {None, Some(PartialColors), Some(FullColors)},
   fontFamily : {None, Some("Georgia")}]

ComposeInputs ==
  [content : ComposeContents,
   keywords : Option(SeqUpTo(Keywords, MaxKeywords)),
   template : Option(ComposeTemplates)]

InitCompose ==
  /\ InitRequests
  /\ fnArg \in ComposeInputs
  /\ fnResult = None

ApplyGenerateResumeHTML ==
  /\ fnResult = None
  /\ fnResult' = Some(generateResumeHTML(fnArg))
  /\ UNCHANGED <<fnArg, reqVars>>

NextCompose == ApplyGenerateResumeHTML

SpecCompose == InitCompose /\ [][NextCompose]_vars

----
\* Properties of the request handler (checked under Spec)

Contains(seq, x) == \E i \in 1..Len(seq) : seq[i] = x

IsPrefixOf(p, q) == Len(p) <= Len(q) /\ SubSeq(q, 1, Len(p)) = p

Finished(r) == pc[r] = "done"

\* the request passed validation: it has a resumeData and a non-empty
\* templateId
Validated(r) ==
  /\ pc[r] # "idle"
  /\ IsSome(body[r].resumeData)
  /\ IsSome(body[r].templateId) /\ Get(body[r].templateId) # ""

\* C1: every request that acquired a browser instance has closed it by the
\* time it finishes, on the success path and on every failure path.
C1_BrowserClosedWhenFinished ==
  \A r \in Requests :
    (Finished(r) /\ IsSome(browser[r])) => ~browsers[Get(browser[r])].open

\* C2: a request that terminates has sent exactly one response, and never
\* more than one at any time; a failed stage (composition, launch, page
\* creation, content load, capture) gives the JSON 500 failure and ends the
\* request; a PDF response is sent only when every stage succeeded, and it
\* is the whole buffer captured from the request's document; no stage is
\* tried twice.
C2_ExactlyOneResponse ==
  \A r \in Requests :
    /\ Len(response[r]) <= 1
    /\ Finished(r) <=> Len(response[r]) = 1
    /\ IsSome(failed[r]) =>
         /\ Finished(r)
         /\ response[r][1].status = 500
         /\ response[r][1].contentType = "application/json"
         /\ response[r][1].error = "Failed to generate PDF"
         /\ response[r][1].pdf = <<>>
    /\ (Finished(r) /\ response[r][1].contentType = "application/pdf") =>
         /\ ~IsSome(failed[r])
         /\ log[r] = StageOrder
         /\ IsSome(html[r])
         /\ response[r][1].pdf = <<"%PDF">> \o Get(html[r]) \o <<"%%EOF">>
    /\ (Finished(r) /\ response[r][1].contentType # "application/pdf") =>
         /\ response[r][1].contentType = "application/json"
         /\ response[r][1].error # ""
         /\ response[r][1].pdf = <<>>
    /\ \A i, j \in 1..Len(log[r]) : log[r][i] = log[r][j] => i = j

C2_Witness ==
  \E r1, r2 \in Requests :
    /\ Finished(r1) /\ response[r1][1].contentType = "application/pdf"
    /\ Finished(r2) /\ failed[r2] = Some("pdf")

\* C3: a request whose body lacks resumeData or has no (or an empty)
\* templateId gets the 400 'Missing required fields' response and runs no
\* pipeline stage: no composition, no browser.
C3_MissingFieldsRejected ==
  \A r \in Requests :
    (/\ pc[r] # "idle"
     /\ \/ ~IsSome(body[r].resumeData)
        \/ ~IsSome(body[r].templateId)
        \/ Get(body[r].templateId) = "") =>
      /\ Finished(r)
      /\ response[r] = <<[status |-> 400, contentType |-> "application/json",
                          error |-> "Missing required fields",
                          message |-> "", pdf |-> <<>>]>>
      /\ log[r] = <<>>
      /\ html[r] = None
      /\ browser[r] = None
      /\ page[r] = None

C3_Witness ==
  /\ \E r \in Requests :
       /\ Finished(r) /\ IsSome(body[r].resumeData)
       /\ ~IsSome(body[r].templateId)
  /\ \E r \in Requests : Finished(r) /\ ~IsSome(body[r].resumeData)

\* C4: the stages of a request start in the fixed order compose, launch,
\* newPage, setContent, pdf, close, send; a stage starts only when the one
\* before it completed successfully, and the PDF capture in particular only
\* once the request's document is loaded in its page.
C4_StageOrder ==
  \A r \in Requests :
    /\ IsPrefixOf(log[r], StageOrder)
    /\ IsSome(failed[r]) => Get(failed[r]) = log[r][Len(log[r])]
    /\ Contains(log[r], "launch") => IsSome(html[r])
    /\ Contains(log[r], "newPage") =>
         IsSome(browser[r]) /\ Get(browser[r]) \in 1..Len(browsers)
    /\ Contains(log[r], "setContent") =>
         IsSome(page[r]) /\ pages[Get(page[r])].browser = Get(browser[r])
    /\ Contains(log[r], "pdf") =>
         IsSome(html[r]) /\ pages[Get(page[r])].content = html[r]
    /\ Contains(log[r], "close") => IsSome(pdfBuffer[r])
    /\ Contains(log[r], "send") =>
         /\ ~browsers[Get(browser[r])].open
         /\ Len(response[r]) = 1

C4_Witness ==
  \E r \in Requests :
    /\ log[r] = StageOrder
    /\ Finished(r)
    /\ response[r][1].contentType = "application/pdf"

\* C5: under every interleaving each validated request launches one browser
\* of its own, opens its page in that browser and loads its own document
\* there; no browser or page is used by two requests, and the PDF a request
\* sends is the PDF of the document composed from its own body.
C5_RequestsIsolated ==
  /\ Len(browsers) = Cardinality({r \in Requests : IsSome(browser[r])})
  /\ Len(pages) = Cardinality({r \in Requests : IsSome(page[r])})
  /\ \A r \in Requests :
       /\ \A q \in Requests \ {r} :
            /\ IsSome(browser[r]) => browser[q] # browser[r]
            /\ IsSome(page[r]) => page[q] # page[r]
       /\ IsSome(page[r]) =>
            /\ pages[Get(page[r])].browser = Get(browser[r])
            /\ pages[Get(page[r])].content \in {None, html[r]}
       /\ IsSome(html[r]) =>
            html[r] = Some(generateResumeHTML(Get(body[r].resumeData)).html)
       /\ IsSome(pdfBuffer[r]) =>
            Get(pdfBuffer[r]) = <<"%PDF">> \o Get(html[r]) \o <<"%%EOF">>
       /\ (Finished(r) /\ response[r][1].contentType = "application/pdf") =>
            response[r][1].pdf = Get(pdfBuffer[r])

\* two requests in flight at once, with different documents, each got its
\* own PDF
C5_Witness ==
  \E r1, r2 \in Requests :
    /\ r1 # r2
    /\ body[r1] # body[r2]
    /\ Finished(r1) /\ response[r1][1].contentType = "application/pdf"
    /\ Finished(r2) /\ response[r2][1].contentType = "application/pdf"
    /\ response[r1][1].pdf # response[r2][1].pdf
    /\ Get(browser[r1]) > Get(browser[r2])
    /\ Get(page[r1]) < Get(page[r2])

----
\* Properties of getSpacing (checked under SpecSpacing)

\* the default table of the spacing resolver, standard row for every other
\* layout
TableRow(layout) ==
  CASE layout = "compact" -> [sectionMargin |-> 15, itemMargin |-> 5]
    [] layout = "spacious" -> [sectionMargin |-> 25, itemMargin |-> 15]
    [] OTHER -> [sectionMargin |-> 20, itemMargin |-> 10]

\* C6: each of sectionMargin and itemMargin is the override when that is
\* present and non-zero, otherwise the default of the template's layout from
\* the table, with the standard row for a missing or unknown layout; both
\* fields are always populated.
C6_SpacingResolved ==
  IsSome(fnResult) =>
    LET layout == IF IsSome(fnArg) /\ IsSome(Get(fnArg).layout)
                  THEN Get(Get(fnArg).layout) ELSE ""
        over == IF IsSome(fnArg) /\ IsSome(Get(fnArg).spacing)
                THEN Get(Get(fnArg).spacing)
                ELSE [sectionMargin |-> None, itemMargin |-> None]
        Expected(f) == IF IsSome(over[f]) /\ Get(over[f]) # 0
                       THEN over[f] ELSE Some(TableRow(layout)[f])
    IN /\ IsSome(Get(fnResult).sectionMargin)
       /\ IsSome(Get(fnResult).itemMargin)
       /\ Get(fnResult).sectionMargin = Expected("sectionMargin")
       /\ Get(fnResult).itemMargin = Expected("itemMargin")

----
\* Properties of parseMarkdown (checked under SpecMarkdown)

\* the lines of a text, split at its newlines
RECURSIVE SplitLines(_)
SplitLines(s) ==
  IF \A i \in 1..Len(s) : s[i] # NL THEN <<s>>
  ELSE LET k == CHOOSE i \in 1..Len(s) :
                  s[i] = NL /\ \A j \in 1..(i - 1) : s[j] # NL
       IN <<SubSeq(s, 1, k - 1)>> \o SplitLines(SubSeq(s, k + 1, Len(s)))

\* the one rule a line's own prefix selects
RewriteLine(line) ==
  LET Rest(n) == SubSeq(line, n + 1, Len(line))
  IN IF IsPrefixOf(<<"#", " ">>, line)
       THEN <<"<h1>">> \o Rest(2) \o <<"</h1>">>
     ELSE IF IsPrefixOf(<<"#", "#", " ">>, line)
       THEN <<"<h2>">> \o Rest(3) \o <<"</h2>">>
     ELSE IF IsPrefixOf(<<"#", "#", "#", " ">>, line)
       THEN <<"<h3>">> \o Rest(4) \o <<"</h3>">>
     ELSE IF IsPrefixOf(<<"*", " ">>, line) \/ IsPrefixOf(<<"-", " ">>, line)
       THEN <<"<li>">> \o Rest(2) \o <<"</li>">>
     ELSE line

\* the output with every pair of line-break elements read as the two
\* newlines it stands for
ExpandBreaks(out) ==
  Flatten([i \in 1..Len(out) |->
             IF out[i] = "<br/><br/>" THEN <<NL, NL>> ELSE <<out[i]>>])

\* C8: the lines of the output are, in order, the lines of the content each
\* rewritten by the one rule its own prefix selects (k = 1, 2, 3 '#' and a
\* space: level-k heading around the rest; '* ' or '- ': bare list item
\* around the rest; anything else, four or more '#' included: unchanged); no
\* list container is emitted; empty or absent content gives the empty
\* string.  The blank-line rule only replaces line separators, so the lines
\* are compared with each pair of line-break elements read as two newlines.
C8_LineRules ==
  IsSome(fnResult) =>
    LET in == IF IsSome(fnArg) THEN Get(fnArg) ELSE <<>>
        out == Get(fnResult)
        lines == SplitLines(in)
    IN /\ in = <<>> => out = <<>>
       /\ SplitLines(ExpandBreaks(out)) =
            [i \in 1..Len(lines) |-> RewriteLine(lines[i])]
       /\ ~Contains(out, "<ul>") /\ ~Contains(out, "<ol>")

\* a heading line and a list line in one text, each rewritten by its rule
C8_Witness ==
  /\ IsSome(fnResult)
  /\ Contains(Get(fnResult), "<h1>")
  /\ Contains(Get(fnResult), "<li>")
  /\ Contains(Get(fnArg), NL)

----
\* Properties of generateResumeHTML (checked under SpecCompose)

Composed == IsSome(fnResult) /\ Get(fnResult).ok

\* C7: the document has the two-region structure and the flex ruleset when
\* template.layout is exactly 'sidebar', and the linear structure without
\* the flex ruleset for every other layout, absent included.
C7_LayoutExclusive ==
  Composed =>
    LET doc == Get(fnResult).html
        sidebar == Get(fnArg.template).layout = Some("sidebar")
        regionTokens == {"<div class=\"resume-content\">",
                         "<div class=\"main-content\">",
                         "<div class=\"sidebar\">"}
        flexTokens == {FlexRules[i] : i \in 1..Len(FlexRules)}
    IN /\ sidebar =>
            /\ \A t \in regionTokens \cup flexTokens : Contains(doc, t)
            /\ ~Contains(doc, "<div>")
       /\ ~sidebar =>
            /\ \A t \in regionTokens \cup flexTokens : ~Contains(doc, t)
            /\ Contains(doc, "<div>")

C7_Witness ==
  /\ Composed
  /\ Get(fnArg.template).layout = Some("sidebar")
  /\ Contains(Get(fnResult).html, "<div class=\"sidebar\">")
  /\ Contains(Get(fnResult).html, FlexRules[1])

\* the texts of the chip elements of a document, in document order
RECURSIVE ChipTexts(_)
ChipTexts(doc) ==
  IF Len(doc) < 3 THEN <<>>
  ELSE IF doc[1] = "<span class=\"keyword\">" /\ doc[3] = "</span>"
       THEN <<doc[2]>> \o ChipTexts(SubSeq(doc, 4, Len(doc)))
       ELSE ChipTexts(Tail(doc))

\* the tokens between the opening of the content region and the element
\* that follows it
ContentRegion(doc) ==
  LET Index(t) == CHOOSE i \in 1..Len(doc) : doc[i] = t
      first == IF Contains(doc, "<div class=\"main-content\">")
               THEN Index("<div class=\"main-content\">") + 1
               ELSE Index("<div>") + 1
      last == IF Contains(doc, "<div class=\"main-content\">")
              THEN Index("<div class=\"sidebar\">") - 2
              ELSE Index("<div class=\"keywords\">") - 1
  IN SubSeq(doc, first, last)

\* C9: in both layout variants the document has one chip element per entry
\* of keywords, in input order, duplicates kept, nothing truncated; with no
\* keywords there is no chip element, and with empty content as well the
\* content region is empty.
C9_KeywordChips ==
  Composed =>
    LET doc == Get(fnResult).html
        kw == Get(fnArg.keywords)
        opens == {i \in 1..Len(doc) : doc[i] = "<span class=\"keyword\">"}
        emptyContent == ~IsSome(fnArg.content) \/ Get(fnArg.content) = <<>>
    IN /\ ChipTexts(doc) = kw
       /\ Cardinality(opens) = Len(kw)
       /\ kw = <<>> => ~Contains(doc, "<span class=\"keyword\">")
       /\ (kw = <<>> /\ emptyContent) => ContentRegion(doc) = <<>>

\* a repeated keyword in the sidebar variant
C9_Witness ==
  /\ Composed
  /\ Get(fnArg.keywords) = <<"js", "js">>
  /\ Get(fnArg.template).layout = Some("sidebar")
  /\ ChipTexts(Get(fnResult).html) = <<"js", "js">>

----
\* Template data errors in the request handler (checked under Spec)

TemplateOfRequest(r) == Get(body[r].resumeData).template

\* C10 as stated: a validated request whose template lacks colors, wholly or
\* in part, is composed into a document and goes on to be rendered.
C10_MissingColorsComposed ==
  \A r \in Requests :
    (/\ Validated(r)
     /\ IsSome(TemplateOfRequest(r))
     /\ LET c == Get(TemplateOfRequest(r)).colors
        IN ~IsSome(c) \/ \E n \in ColorNames : ~IsSome(Get(c)[n])) =>
      /\ IsSome(html[r])
      /\ Contains(log[r], "launch")
      /\ failed[r] # Some("compose")

\* C10 amended: when the colors object is there but lacks values, the
\* request is composed, each missing value reads 'undefined' in the
\* stylesheet, and the browser launch follows; when the colors object itself
\* is absent, composition throws, the request ends with the 500 failure and
\* launches no browser; equal bodies have equal outcomes.
C10_MissingColorValuesComposed ==
  \A r \in Requests :
    (Validated(r) /\ IsSome(TemplateOfRequest(r))) =>
      LET c == Get(TemplateOfRequest(r)).colors
      IN /\ (/\ IsSome(c)
             /\ \E n \in ColorNames : ~IsSome(Get(c)[n])
             /\ IsSome(Get(body[r].resumeData).keywords)) =>
              /\ IsSome(html[r])
              /\ Contains(Get(html[r]), "undefined")
              /\ ~IsSome(Get(c).accent) =>
                   /\ Contains(Get(html[r]), "undefined20")
                   /\ Contains(Get(html[r]), "undefined40")
              /\ Contains(log[r], "launch")
              /\ failed[r] # Some("compose")
         /\ ~IsSome(c) =>
              /\ Finished(r)
              /\ failed[r] = Some("compose")
              /\ Len(response[r]) = 1
              /\ response[r][1].status = 500
              /\ response[r][1].contentType = "application/json"
              /\ log[r] = <<"compose">>
              /\ html[r] = None
              /\ browser[r] = None
         /\ \A q \in Requests :
              (pc[q] # "idle" /\ body[q] = body[r]) =>
                /\ html[q] = html[r]
                /\ (failed[q] = Some("compose")) <=> (failed[r] = Some("compose"))

\* both kinds of request have run
C10_Witness ==
  \E r1, r2 \in Requests :
    /\ Validated(r1) /\ IsSome(TemplateOfRequest(r1))
    /\ ~IsSome(Get(TemplateOfRequest(r1)).colors)
    /\ Finished(r1)
    /\ Validated(r2) /\ IsSome(TemplateOfRequest(r2))
    /\ IsSome(Get(TemplateOfRequest(r2)).colors)
    /\ ~IsSome(Get(Get(TemplateOfRequest(r2)).colors).accent)
    /\ Contains(log[r2], "pdf")

----
\* Pending awaits (checked under SpecLive)

\* the promise request r awaits settles: it resolves or it rejects
Settle(r) ==
  \/ LaunchResolve(r)
  \/ NewPageResolve(r)
  \/ SetContentResolve(r)
  \/ PdfResolve(r)
  \/ CloseResolve(r)
  \/ Reject(r)

\* one body of each kind: rejected by validation, failing at composition,
\* rendered
LiveBodies ==
  {[resumeData |-> None, templateId |-> Some("t1")],
   [resumeData |-> Some(NoColorsResume), templateId |-> Some("t1")],
   [resumeData |-> Some(StandardResume), templateId |-> Some("t1")]}

NextLive ==
  \E r \in Requests :
    \/ \E b \in LiveBodies : Receive(r, b)
    \/ Settle(r)

\* every awaited browser operation eventually resolves or rejects
SpecLive ==
  Init /\ [][NextLive]_vars /\ \A r \in Requests : WF_vars(Settle(r))

\* what a request awaiting stage p has started so far
StartedAt(p) ==
  CASE p = "awaitLaunch" -> <<"compose", "launch">>
    [] p = "awaitNewPage" -> <<"compose", "launch", "newPage">>
    [] p = "awaitSetContent" -> <<"compose", "launch", "newPage", "setContent">>
    [] p = "awaitPdf" ->
         <<"compose", "launch", "newPage", "setContent", "pdf">>
    [] p = "awaitClose" ->
         <<"compose", "launch", "newPage", "setContent", "pdf", "close">>

\* C11: the pipeline has no timeout or cancellation.  While a request waits
\* for a render stage it has sent no response and the browser it launched
\* stays open; it leaves the wait only when the awaited operation itself
\* resolves (the next stage starts) or rejects (the failure names that
\* stage, and the browser is left as it was); so a request that has been
\* received finishes provided every awaited operation eventually settles.
C11_NoTimeout ==
  /\ [](\A r \in Requests :
          pc[r] \in {"awaitLaunch", "awaitNewPage", "awaitSetContent",
                     "awaitPdf"} =>
            /\ response[r] = <<>>
            /\ log[r] = StartedAt(pc[r])
            /\ IsSome(browser[r]) => browsers[Get(browser[r])].open)
  /\ [](\A r \in Requests : pc[r] = "awaitClose" => response[r] = <<>>)
  /\ [][\A r \in Requests :
          (pc[r] \in {"awaitLaunch", "awaitNewPage", "awaitSetContent",
                      "awaitPdf", "awaitClose"} /\ pc'[r] # pc[r]) =>
            \/ /\ pc'[r] # "done"
               /\ Len(log'[r]) = Len(log[r]) + 1
               /\ response'[r] = <<>>
            \/ /\ pc'[r] = "done"
               /\ failed'[r] = Some(log[r][Len(log[r])])
               /\ Len(response'[r]) = 1
               /\ browsers' = browsers
            \/ /\ pc[r] = "awaitClose"
               /\ pc'[r] = "done"
               /\ failed'[r] = None
               /\ log'[r] = StageOrder]_vars
  /\ \A r \in Requests : (pc[r] # "idle") ~> (pc[r] = "done")

\* a request is waiting for the content load with its browser open and
\* nothing sent, while another request has already finished
C11_Witness ==
  \E r, q \in Requests :
    /\ pc[r] = "awaitSetContent"
    /\ browsers[Get(browser[r])].open
    /\ response[r] = <<>>
    /\ pc[q] = "done"

----
\* A failed browser close (checked under Spec)

\* C12: the PDF is sent only after browser.close has resolved: a PDF
\* response implies the request's browser is closed; when launch, page
\* creation, content load and capture succeeded but the close rejects, the
\* captured buffer is not sent and the one response is the 500 JSON failure.
C12_PdfOnlyAfterClose ==
  \A r \in Requests :
    /\ (Len(response[r]) > 0
        /\ response[r][1].contentType = "application/pdf") =>
         /\ ~browsers[Get(browser[r])].open
         /\ failed[r] = None
         /\ log[r][Len(log[r]) - 1] = "close"
    /\ failed[r] = Some("close") =>
         /\ IsSome(pdfBuffer[r])
         /\ pc[r] = "done"
         /\ Len(response[r]) = 1
         /\ response[r][1].status = 500
         /\ response[r][1].contentType = "application/json"
         /\ response[r][1].error = "Failed to generate PDF"
         /\ response[r][1].pdf = <<>>
         /\ ~Contains(log[r], "send")

\* a request whose capture succeeded and whose close failed
C12_Witness ==
  \E r \in Requests :
    /\ failed[r] = Some("close")
    /\ IsSome(pdfBuffer[r])
    /\ response[r][1].status = 500

====
